---- MODULE Spec2Model ----
(***************************************************************************)
(* A model of the studydiskv engine (src/diskv.go) and of its B-tree index *)
(* (src/unnamed/part_003).                                                 *)
(*                                                                         *)
(* Strings are sequences of one-character strings, so that splitting a     *)
(* path on the separator, prefix tests and the lexicographic order are     *)
(* computed rather than assumed.  A path of the filesystem is the sequence *)
(* of its names below BasePath; <<>> is BasePath itself.                   *)
(*                                                                         *)
(* The model covers an engine without Compression (Options.Compression ==  *)
(* nil) and a filesystem whose system calls fail only for the reasons the  *)
(* directory tree gives (a missing parent, a directory in the way).        *)
(***************************************************************************)
EXTENDS Integers, Sequences, FiniteSets, TLC

VARIABLES
    transformKind,  \* Options.Transform: "default", "simple", or "hex" (AdvancedTransform)
    useTempDir,     \* Options.TempDir != ""
    CacheSizeMax,   \* Options.CacheSizeMax
    files,          \* regular files below BasePath: path -> contents
    dirs,           \* directories below BasePath (<<>> is BasePath)
    tempDirExists,  \* TempDir exists on disk
    cache,          \* Diskv.cache: key -> bytes
    cacheSize,      \* Diskv.cacheSize, the uint64 as its representative in (-2^63, 2^63)
    index,          \* the keys held by the BTreeIndex
    mu,             \* Diskv.mu: "free", or the write that holds it between open and copy
    readers,        \* the open siphons / closing readers
    tasks,          \* the deferred uncache goroutines of ReadStream(direct=true)
    aborted,        \* "no", or the panic that ended the process
    lastErr,        \* the error the last API call returned ("nil" for none)
    hasIndex,       \* Options.Index != nil
    compression,    \* Options.Compression != nil
    watch,          \* which observer runs: "probe", "erased", "last", "import" or "none"
    probe,          \* the round-trip client: Write(k,v); Read(k); Read(k)
    erased,         \* the keys erased and not written or imported since
    last,           \* key -> the value of its latest successful Write or Import, for
                    \* the keys not erased since
    srcLeft,        \* the latest successful Import: its move flag, whether its source
                    \* file still exists
    keysOut,        \* the last Index.Keys(from, n) call and its result
    keysChan,       \* what the last drained Keys channel delivered
    staged          \* TempDir holds a temporary file that no call will remove

cfgVars == <<transformKind, useTempDir, CacheSizeMax, hasIndex, compression, watch>>
histVars == <<erased, last, srcLeft>>
fsVars == <<files, dirs, tempDirExists>>
cacheVars == <<cache, cacheSize>>
vars == <<transformKind, useTempDir, CacheSizeMax, files, dirs, tempDirExists,
          cache, cacheSize, index, mu, readers, tasks, aborted, lastErr,
          hasIndex, compression, watch, probe, erased, last, srcLeft, keysOut, keysChan,
          staged>>

----------------------------------------------------------------------------
(* Bounds *)

MaxReaders == 1
MaxTasks == 1
MaxCacheSizeMax == 1
MaxKeysN == 3
MaxUnderflow == 2

----------------------------------------------------------------------------
(* Strings *)

PathSeparator == "/"
PathListSeparator == ":"

ContainsRune(s, c) == \E i \in 1..Len(s) : s[i] = c

\* the code points of the characters the model's keys are made of
Ord(c) ==
    CASE c = "-" -> 45
      [] c = "/" -> 47
      [] c = ":" -> 58
      [] c = "a" -> 97
      [] c = "b" -> 98
      [] c = "c" -> 99

RECURSIVE strLess(_, _)
strLess(a, b) ==
    IF b = <<>> THEN FALSE
    ELSE IF a = <<>> THEN TRUE
    ELSE IF Ord(Head(a)) # Ord(Head(b)) THEN Ord(Head(a)) < Ord(Head(b))
    ELSE strLess(Tail(a), Tail(b))

\* strings.Split(s, "/") without the empty pieces, which filepath.Clean drops
RECURSIVE SplitClean(_, _)
SplitClean(s, cur) ==
    IF s = <<>> THEN (IF cur = <<>> THEN <<>> ELSE <<cur>>)
    ELSE IF Head(s) = PathSeparator
         THEN (IF cur = <<>> THEN <<>> ELSE <<cur>>) \o SplitClean(Tail(s), <<>>)
         ELSE SplitClean(Tail(s), Append(cur, Head(s)))

\* strings.Split(s, "/"): every piece, the empty ones too
RECURSIVE Split(_, _)
Split(s, cur) ==
    IF s = <<>> THEN <<cur>>
    ELSE IF Head(s) = PathSeparator THEN <<cur>> \o Split(Tail(s), <<>>)
    ELSE Split(Tail(s), Append(cur, Head(s)))

\* strings.Join(elems, "/")
RECURSIVE Join(_)
Join(elems) ==
    IF elems = <<>> THEN <<>>
    ELSE IF Len(elems) = 1 THEN Head(elems)
    ELSE Head(elems) \o <<PathSeparator>> \o Join(Tail(elems))

RECURSIVE JoinClean(_)
JoinClean(elems) ==
    IF elems = <<>> THEN <<>>
    ELSE SplitClean(Head(elems), <<>>) \o JoinClean(Tail(elems))

----------------------------------------------------------------------------
(* Keys, values, errors *)

KEmpty == <<>>
KA == <<"a">>
KB == <<"b">>
KASlash == <<"a", "/">>
KASlashA == <<"a", "/", "a">>
KAColon == <<"a", ":">>
KASlashB == <<"a", "/", "b">>
KSlashB == <<"/", "b">>
KAB == <<"a", "b">>

\* the keys the calls are made with
WriteKeys == {KEmpty, KA, KASlash, KASlashA, KAColon}
ReadKeys == {KA, KASlash}
ImportKeys == {KEmpty, KA}
CacheKeys == {KA, KB}
Keys == WriteKeys \cup ReadKeys \cup ImportKeys \cup CacheKeys

Values == {<<>>, <<1>>}

----------------------------------------------------------------------------
(* Path keys: diskv.go 22-35, 104-122, 506-512 *)

PathKey(path, fileName, key) == [Path |-> path, FileName |-> fileName, originalKey |-> key]

defaultAdvancedTransform(s) == PathKey(<<>>, s, s)

\* the caller's Options.Transform: one directory per key, named after it
blockTransform(s) == <<s>>

convertToAdvancedTransform(s) == PathKey(blockTransform(s), s, s)

\* the caller's Options.AdvancedTransform of the git-like example, for keys
\* that are no 40-digit hex string: the folders of the key, then its last piece
hexTransform(s) ==
    LET folders == Split(s, <<>>)
        lfolders == Len(folders)
    IN  IF lfolders > 1
        THEN PathKey(SubSeq(folders, 1, lfolders - 1), folders[lfolders], s)
        ELSE PathKey(<<>>, s, s)

transform(key) ==
    IF transformKind = "default" THEN defaultAdvancedTransform(key)
    ELSE IF transformKind = "hex" THEN hexTransform(key)
    ELSE convertToAdvancedTransform(key)

defaultInverseTransform(pathKey) == pathKey.FileName

hexInverseTransform(pathKey) ==
    IF Len(pathKey.Path) = 0 THEN pathKey.FileName
    ELSE Join(pathKey.Path) \o <<PathSeparator>> \o pathKey.FileName

\* Options.InverseTransform
InverseTransform(pathKey) ==
    IF transformKind = "hex" THEN hexInverseTransform(pathKey)
    ELSE defaultInverseTransform(pathKey)

pathFor(pathKey) == JoinClean(pathKey.Path)

completeFilename(pathKey) == pathFor(pathKey) \o SplitClean(pathKey.FileName, <<>>)

\* WriteStreamCheck without the loop over the path segments
WriteStreamCheckNoSegments(key) ==
    IF Len(key) <= 0 THEN "Empty"
    ELSE IF ContainsRune(transform(key).FileName, PathListSeparator) THEN "BadKey"
    ELSE "nil"

\* the checks of WriteStream before it takes the lock
WriteStreamCheck(key) ==
    IF Len(key) <= 0 THEN "Empty"
    ELSE IF \E i \in 1..Len(transform(key).Path) :
                ContainsRune(transform(key).Path[i], PathSeparator) THEN "BadKey"
    ELSE IF ContainsRune(transform(key).FileName, PathListSeparator) THEN "BadKey"
    ELSE "nil"

----------------------------------------------------------------------------
(* The filesystem below BasePath, as the system calls the engine makes see it *)

Parent(p) == SubSeq(p, 1, Len(p) - 1)
Prefixes(p) == {SubSeq(p, 1, i) : i \in 0..Len(p)}

IsFile(F, p) == p \in DOMAIN F
IsDir(D, p) == p \in D

\* os.MkdirAll(p): fails when a regular file is on the way
MkdirAllOK(F, p) == \A q \in Prefixes(p) : ~IsFile(F, q)
MkdirAll(D, p) == D \cup Prefixes(p)

\* os.OpenFile(p, O_WRONLY|O_CREATE|O_TRUNC) and rename(2) onto p succeed when
\* p is no directory and its parent is one
CanCreate(F, D, p) == p # <<>> /\ ~IsDir(D, p) /\ IsDir(D, Parent(p))

PutFile(F, p, val) == [q \in DOMAIN F \cup {p} |-> IF q = p THEN val ELSE F[q]]
DelFile(F, p) == [q \in DOMAIN F \ {p} |-> F[q]]

EmptyFiles == [q \in {} |-> <<>>]

\* filepath.Glob(dir/*)
Glob(F, D, dir) == {q \in DOMAIN F \cup D : q # <<>> /\ Parent(q) = dir}

----------------------------------------------------------------------------
(* The cache: diskv.go 514-546, 573-594 *)

EmptyCache == [k \in {} |-> <<>>]

\* uint64 comparison (cacheSize + valueSize) <= CacheSizeMax on the
\* representative: a negative representative is a value near 2^64
safe(size, valueSize) == size + valueSize >= 0 /\ size + valueSize <= CacheSizeMax

uncacheWithLock(cs, key, sz) ==
    [c |-> [k \in DOMAIN cs.c \ {key} |-> cs.c[k]], size |-> cs.size - sz]

bustCacheWithLock(cs, key) ==
    IF key \in DOMAIN cs.c THEN uncacheWithLock(cs, key, Len(cs.c[key])) ELSE cs

\* the eviction loop over the map, whose iteration order is not specified:
\* every state the loop can end in
RECURSIVE EvictOutcomes(_, _)
EvictOutcomes(cs, valueSize) ==
    IF safe(cs.size, valueSize) \/ DOMAIN cs.c = {} THEN {cs}
    ELSE UNION {EvictOutcomes(uncacheWithLock(cs, k, Len(cs.c[k])), valueSize) :
                    k \in DOMAIN cs.c}

\* ensureCacheSpaceWithLock without its first test, valueSize > CacheSizeMax
ensureCacheSpaceNoLimit(cs, valueSize) ==
    {[res |-> IF safe(o.size, valueSize) THEN "ok" ELSE "wontfit", cs |-> o] :
              o \in EvictOutcomes(cs, valueSize)}

\* ensureCacheSpaceWithLock: "toolarge" (an error), "panic", or "ok" with the cache
ensureCacheSpaceWithLock(cs, valueSize) ==
    IF valueSize > CacheSizeMax THEN {[res |-> "toolarge", cs |-> cs]}
    ELSE {[res |-> IF safe(o.size, valueSize) THEN "ok" ELSE "wontfit", cs |-> o] :
              o \in EvictOutcomes(cs, valueSize)}

\* cacheWithLock: every outcome of installing val under key
cacheWithLock(cs, key, val) ==
    {IF e.res = "ok" /\ ~safe(e.cs.size, Len(val)) THEN [res |-> "noroom", cs |-> e.cs]
     ELSE IF e.res = "ok"
        THEN [res |-> "ok",
              cs |-> [c |-> [k \in DOMAIN e.cs.c \cup {key} |->
                                IF k = key THEN val ELSE e.cs.c[k]],
                      size |-> e.cs.size + Len(val)]]
        ELSE e
     : e \in ensureCacheSpaceWithLock(bustCacheWithLock(cs, key), Len(val))}

CacheState == [c |-> cache, size |-> cacheSize]

----------------------------------------------------------------------------
(* The index: part_003 85-139, over the B-tree's ordered set *)

\* BTree.AscendGreaterOrEqual(pivot): the items e with !(e < pivot), found by
\* the pivot's own Less; ascending
RECURSIVE SortedSeq(_)
SortedSeq(S) ==
    IF S = {} THEN <<>>
    ELSE LET m == CHOOSE x \in S : \A y \in S \ {x} : strLess(x, y)
         IN <<m>> \o SortedSeq(S \ {m})

AscendGreaterOrEqual(tree, pivotAlwaysLess, pivot) ==
    SortedSeq({e \in tree : pivotAlwaysLess \/ ~strLess(e, pivot)})

\* an iterator that stops one key early
TakeOneLess(s, n) == IF Len(s) = 0 THEN <<>> ELSE SubSeq(s, 1, IF n < Len(s) THEN n - 1 ELSE Len(s) - 1)

\* the iterator of Keys: appends, then goes on while len(keys) < n
Take(s, n) == IF Len(s) = 0 THEN <<>> ELSE SubSeq(s, 1, IF n < 1 THEN 1 ELSE IF n < Len(s) THEN n ELSE Len(s))

IndexKeys(tree, from, n) ==
    IF Cardinality(tree) <= 0 THEN <<>>
    ELSE LET fabricate == Len(from) <= 0 \/ from \in tree
             skipFirst == ~fabricate
             keys == Take(AscendGreaterOrEqual(tree, fabricate, from), n)
         IN IF skipFirst /\ Len(keys) > 0 THEN Tail(keys) ELSE keys

IndexInsert(tree, key) == tree \cup {key}
IndexDelete(tree, key) == tree \ {key}

----------------------------------------------------------------------------
(* Readers, deferred uncache tasks, the lock, the round-trip client *)

NoReader == [key |-> <<>>, path |-> <<>>, linked |-> FALSE, data |-> <<>>,
             buf |-> <<>>, pc |-> "none"]
NoTask == [key |-> <<>>, sz |-> 0, live |-> FALSE]
Unlocked == [st |-> "free", key |-> <<>>, val |-> <<>>, import |-> FALSE, move |-> FALSE]
Idle == [st |-> "idle", key |-> <<>>, val |-> <<>>, got |-> <<>>, err |-> "nil"]
NoImport == [done |-> FALSE, move |-> FALSE, left |-> FALSE]
NoKeysDrain == [closed |-> FALSE, prefix |-> <<>>, out |-> <<>>, on |-> {}]
NoKeysCall == [from |-> <<>>, n |-> 0, out |-> <<>>, called |-> FALSE, tree |-> {}]

\* the readers that can be open at a time
ReaderSlots == DOMAIN readers
TaskSlots == 1..MaxTasks

FreeReaderSlots == {i \in ReaderSlots : readers[i].pc = "none"}
FreeTaskSlots == {j \in TaskSlots : ~tasks[j].live}
Lowest(S) == CHOOSE i \in S : \A j \in S : i <= j

\* an open file keeps its inode: a reader of a path that is unlinked or renamed
\* over keeps reading the old contents, a reader of a path that is truncated and
\* rewritten in place reads the new ones
Detach(R, F, P) ==
    [i \in DOMAIN R |->
        IF R[i].pc # "none" /\ R[i].linked /\ R[i].path \in P
        THEN [R[i] EXCEPT !.linked = FALSE, !.data = F[R[i].path]]
        ELSE R[i]]

ReaderContent(r) == IF r.linked THEN files[r.path] ELSE r.data

\* the cache holds bytes for key that are not those of its latest successful
\* mutation
StaleCache(key) ==
    key \in DOMAIN cache /\ (key \in DOMAIN last => cache[key] # last[key])

\* the client that calls Write(k, v), Read(k), Read(k) in a row, with no other
\* call in between, starting when no reader is open and no deferred uncache
\* is pending; with watch = "heal" it starts only when the cache holds stale
\* bytes for k
ProbeWritten(key, val) ==
    IF /\ watch \in {"probe", "sibling"} \/ (watch = "heal" /\ StaleCache(key))
       /\ \A i \in ReaderSlots : readers[i].pc = "none"
       /\ \A j \in TaskSlots : ~tasks[j].live
    THEN [st |-> "written", key |-> key, val |-> val, got |-> <<>>, err |-> "nil"]
    ELSE Idle

\* the client that calls Import(src, k, move), Read(k) in a row, starting when
\* no reader is open and no deferred uncache is pending
ProbeImported(key, val) ==
    IF /\ watch = "import"
       /\ \A i \in ReaderSlots : readers[i].pc = "none"
       /\ \A j \in TaskSlots : ~tasks[j].live
    THEN [st |-> "written", key |-> key, val |-> val, got |-> <<>>, err |-> "nil"]
    ELSE Idle

ProbeExpectsRead(key) == probe.st \in {"written", "read1"} /\ probe.key = key

ProbeReturned(key, got, err) ==
    IF ProbeExpectsRead(key)
    THEN [probe EXCEPT !.st = IF probe.st = "written" THEN "read1" ELSE "read2",
                       !.got = got, !.err = err]
    ELSE Idle

\* with watch = "sibling" the client starts a second Read(k) while its first
\* one is not yet drained
ProbeOpened(key) ==
    IF ProbeExpectsRead(key)
    THEN [probe EXCEPT !.st = IF probe.st = "written" THEN "reading1" ELSE "reading2"]
    ELSE IF watch = "sibling" /\ probe.st = "reading1" /\ probe.key = key
    THEN [probe EXCEPT !.st = "siblings"]
    ELSE Idle

\* the keys whose erasure is followed: Erase(key) succeeded while no reader of
\* key was open, and key was not written or imported since
ErasedAfterErase(key) ==
    IF watch = "erased" /\ \A i \in ReaderSlots : readers[i].pc = "none" \/ readers[i].key # key
    THEN erased \cup {key}
    ELSE erased \ {key}

\* the record of the latest successful mutation of each key
LastAfterWrite(key, val) ==
    IF watch \in {"last", "heal"}
    THEN [k \in DOMAIN last \cup {key} |-> IF k = key THEN val ELSE last[k]]
    ELSE last

LastAfterErase(key) ==
    IF watch \in {"last", "heal"} THEN [k \in DOMAIN last \ {key} |-> last[k]] ELSE last

\* the keys written and not erased since whose file the directory holds
WrittenOnDisk ==
    {k \in DOMAIN last : IsFile(files, completeFilename(transform(k)))}

\* Import: rename(2) moves the source away; after a copy, os.Remove(srcFilename)
\* runs if move is set
SrcAfterImport(import, move, renamed) ==
    IF watch \in {"last", "import"} /\ import
    THEN [done |-> TRUE, move |-> move, left |-> IF renamed THEN FALSE ELSE ~move]
    ELSE srcLeft

ProbeDrained(got) ==
    IF probe.st = "reading1" THEN [probe EXCEPT !.st = "read1", !.got = got]
    ELSE IF probe.st = "reading2" THEN [probe EXCEPT !.st = "read2", !.got = got]
    ELSE IF probe.st = "siblings" THEN [probe EXCEPT !.st = "drained1", !.got = got]
    ELSE IF probe.st = "drained1" THEN [probe EXCEPT !.st = "drained2", !.got = got]
    ELSE probe

----------------------------------------------------------------------------
(* Has: diskv.go 433-452 *)

Has(key) ==
    \/ key \in DOMAIN cache
    \/ IsFile(files, completeFilename(transform(key)))

----------------------------------------------------------------------------
(* Keys: diskv.go 454-504 *)

\* the key of a file, as the walker of KeysPrefix rebuilds it (diskv.go 480-490)
KeyOfFile(p) ==
    InverseTransform(PathKey(Parent(p), p[Len(p)], <<>>))

KeysOnDisk == {KeyOfFile(p) : p \in DOMAIN files}

\* strings.HasPrefix
HasPrefix(s, prefix) ==
    Len(prefix) <= Len(s) /\ SubSeq(s, 1, Len(prefix)) = prefix

\* filepath.Walk with the walker: the entries of a directory in lexical
\* order, a directory before what it holds; a file sends its key if the key
\* has the prefix, a directory sends nothing, a missing root ends the walk
RECURSIVE Walk(_, _, _, _)
RECURSIVE WalkEntries(_, _, _, _)
Walk(F, D, path, prefix) ==
    IF IsFile(F, path)
    THEN IF HasPrefix(KeyOfFile(path), prefix) THEN <<KeyOfFile(path)>> ELSE <<>>
    ELSE IF IsDir(D, path) THEN WalkEntries(F, D, Glob(F, D, path), prefix)
    ELSE <<>>

WalkEntries(F, D, entries, prefix) ==
    IF entries = {} THEN <<>>
    ELSE LET m == CHOOSE x \in entries :
                      \A y \in entries \ {x} : strLess(x[Len(x)], y[Len(y)])
         IN Walk(F, D, m, prefix) \o WalkEntries(F, D, entries \ {m}, prefix)

----------------------------------------------------------------------------
(* Init: the engine New returns over an empty BasePath, with                *)
(* Index: &BTreeIndex{}, IndexLess: strLess                                 *)

FreshWith(nReaders) ==
    /\ files = EmptyFiles
    /\ dirs = {}
    /\ tempDirExists = FALSE
    /\ cache = EmptyCache
    /\ cacheSize = 0
    /\ index = {}
    /\ mu = Unlocked
    /\ readers = [i \in 1..nReaders |-> NoReader]
    /\ tasks = [j \in TaskSlots |-> NoTask]
    /\ aborted = "no"
    /\ lastErr = "nil"
    /\ probe = Idle
    /\ erased = {}
    /\ last = EmptyCache
    /\ srcLeft = NoImport
    /\ keysOut = NoKeysCall
    /\ keysChan = NoKeysDrain
    /\ staged = FALSE

Fresh == FreshWith(MaxReaders)

Running == aborted = "no"
LockFree == mu.st = "free"

----------------------------------------------------------------------------
(* Compression: compression.go 8-44 *)

\* the two bytes a zlib stream starts with (CMF, FLG), which zlib.NewReaderDict
\* reads from its source before it returns
ZlibHeader == <<120, 156>>

\* what Compression.Writer puts into the file for val: the header, then the
\* body (the deflate coding of the body and the checksum are left abstract)
Encode(val) == IF compression THEN ZlibHeader \o val ELSE val

\* the stream begins with a whole, valid header
ValidStream(raw) ==
    compression => /\ Len(raw) >= Len(ZlibHeader)
                   /\ SubSeq(raw, 1, Len(ZlibHeader)) = ZlibHeader

\* what the reader Compression.Reader returns yields from the stream raw
Decode(raw) ==
    IF ~compression THEN raw
    ELSE IF ValidStream(raw) THEN SubSeq(raw, Len(ZlibHeader) + 1, Len(raw))
    ELSE <<>>

----------------------------------------------------------------------------
(* Write: diskv.go 110-229 *)

\* the tail of writeStreamWithLock without its bustCacheWithLock
CommittedNoBust(key) ==
    /\ erased' = erased \ {key}
    /\ index' = IF hasIndex THEN IndexInsert(index, key) ELSE index
    /\ UNCHANGED <<cache, cacheSize>>
    /\ lastErr' = "nil"

\* the tail of writeStreamWithLock once the bytes are in the final file:
\* Index.Insert, bustCacheWithLock, and the deferred Unlock
Committed(key) ==
    /\ erased' = erased \ {key}
    /\ index' = IF hasIndex THEN IndexInsert(index, key) ELSE index
    /\ cache' = bustCacheWithLock(CacheState, key).c
    /\ cacheSize' = bustCacheWithLock(CacheState, key).size
    /\ lastErr' = "nil"

Failed(err) ==
    /\ lastErr' = err
    /\ probe' = Idle
    /\ UNCHANGED <<files, cache, cacheSize, index, mu, readers, histVars>>

\* writeStreamWithLock, up to the point where the destination file is open.
\* With TempDir the bytes are staged there and renamed over the destination, so
\* the whole write is one step; without it the destination is truncated here and
\* filled by WriteFinish, the lock held in between.
writeStreamWithLock(pathKey, val, import, move) ==
    LET dir == pathFor(pathKey)
        fullPath == completeFilename(pathKey)
        key == pathKey.originalKey
    IN  IF ~MkdirAllOK(files, dir)
        THEN Failed("IO") /\ UNCHANGED <<dirs, tempDirExists>>
        ELSE /\ dirs' = MkdirAll(dirs, dir)
             /\ IF useTempDir
                THEN /\ tempDirExists' = TRUE
                     /\ IF CanCreate(files, dirs', fullPath)
                        THEN /\ readers' = Detach(readers, files, {fullPath})
                             /\ files' = PutFile(files, fullPath, Encode(val))
                             /\ Committed(key)
                             /\ last' = LastAfterWrite(key, val)
                             /\ srcLeft' = SrcAfterImport(import, move, FALSE)
                             /\ probe' = IF import THEN ProbeImported(key, val)
                                         ELSE ProbeWritten(key, val)
                             /\ UNCHANGED mu
                        ELSE Failed("IO")
                ELSE /\ UNCHANGED tempDirExists
                     /\ IF CanCreate(files, dirs', fullPath)
                        THEN /\ files' = PutFile(files, fullPath, <<>>)
                             /\ mu' = [st |-> "write", key |-> key, val |-> val,
                                       import |-> import, move |-> move]
                             /\ probe' = Idle
                             /\ UNCHANGED <<cache, cacheSize, index, readers, lastErr, histVars>>
                        ELSE Failed("IO")

WriteStream(key, val) ==
    /\ Running
    /\ IF WriteStreamCheck(key) # "nil"
       THEN Failed(WriteStreamCheck(key)) /\ UNCHANGED <<dirs, tempDirExists>>
       ELSE LockFree /\ writeStreamWithLock(transform(key), val, FALSE, FALSE)
    /\ UNCHANGED <<cfgVars, tasks, aborted, keysOut, keysChan, staged>>

\* the steps of writeStreamWithLock after ensurePathWithLock that can return
\* an error: os.MkdirAll(TempDir), ioutil.TempFile, os.Chmod,
\* Compression.Writer, io.Copy, wc.Close, f.Sync, f.Close, os.Rename
TempSteps == {"tempmkdir", "tempfile", "chmod", "compressor", "copy", "wcclose",
              "sync", "close", "rename"}
InPlaceSteps == {"compressor", "copy", "wcclose", "sync", "close"}

\* WriteStream with TempDir set, when the given step of the pipeline fails.
\* Every branch but the one of f.Close removes the temporary file.
WriteStreamFails(key, val, step) ==
    /\ Running /\ LockFree
    /\ useTempDir
    /\ WriteStreamCheck(key) = "nil"
    /\ MkdirAllOK(files, pathFor(transform(key)))
    /\ dirs' = MkdirAll(dirs, pathFor(transform(key)))
    /\ tempDirExists' = IF step = "tempmkdir" THEN tempDirExists ELSE TRUE
    /\ staged' = IF step = "close" THEN TRUE ELSE staged
    /\ Failed("IO")
    /\ UNCHANGED <<cfgVars, tasks, aborted, keysOut, keysChan>>

\* the write into the truncated destination, when the given step fails: the
\* branches of Compression.Writer, io.Copy, wc.Close and f.Sync close the
\* file and remove f.Name(), which is the destination; the branch of f.Close
\* returns with the destination written.  None reaches Index.Insert or
\* bustCacheWithLock.
WriteFails(step) ==
    /\ Running /\ mu.st = "write"
    /\ LET fullPath == completeFilename(transform(mu.key))
       IN  IF step = "close"
           THEN /\ files' = PutFile(files, fullPath, Encode(mu.val))
                /\ UNCHANGED readers
           ELSE \E n \in 0..Len(Encode(mu.val)) :
                   /\ step \in {"compressor"} => n = 0
                   /\ step \in {"wcclose", "sync"} => n = Len(Encode(mu.val))
                   /\ readers' = Detach(readers,
                                        PutFile(files, fullPath,
                                                SubSeq(Encode(mu.val), 1, n)),
                                        {fullPath})
                   /\ files' = DelFile(files, fullPath)
    /\ lastErr' = "IO"
    /\ mu' = Unlocked
    /\ probe' = Idle
    /\ UNCHANGED <<cfgVars, dirs, tempDirExists, cache, cacheSize, index, tasks, aborted,
                   histVars, keysOut, keysChan, staged>>

\* io.Copy into the truncated destination, then the tail of writeStreamWithLock
WriteFinish ==
    /\ Running /\ mu.st = "write"
    /\ files' = PutFile(files, completeFilename(transform(mu.key)), Encode(mu.val))
    /\ Committed(mu.key)
    /\ last' = LastAfterWrite(mu.key, mu.val)
    /\ srcLeft' = SrcAfterImport(mu.import, mu.move, FALSE)
    /\ mu' = Unlocked
    /\ probe' = IF mu.import THEN ProbeImported(mu.key, mu.val)
                ELSE ProbeWritten(mu.key, mu.val)
    /\ UNCHANGED <<cfgVars, dirs, tempDirExists, readers, tasks, aborted, keysOut, keysChan, staged>>

----------------------------------------------------------------------------
(* Import: diskv.go 231-270.  src is "missing", "dir", or "file" holding val; *)
(* exdev says whether rename(2) reports a cross-device link                  *)

Import(src, val, dstKey, move, exdev) ==
    /\ Running
    /\ UNCHANGED <<cfgVars, tasks, aborted, keysOut, keysChan, staged>>
    /\ IF dstKey = <<>> THEN Failed("Empty") /\ UNCHANGED <<dirs, tempDirExists>>
       ELSE IF src = "missing" THEN Failed("NotFound") /\ UNCHANGED <<dirs, tempDirExists>>
       ELSE IF src = "dir" THEN Failed("ImportDirectory") /\ UNCHANGED <<dirs, tempDirExists>>
       ELSE LET dstPathKey == transform(dstKey)
                fullPath == completeFilename(dstPathKey)
            IN  IF ~LockFree THEN FALSE
                ELSE IF ~MkdirAllOK(files, pathFor(dstPathKey))
                THEN Failed("IO") /\ UNCHANGED <<dirs, tempDirExists>>
                ELSE IF move /\ ~exdev
                THEN /\ dirs' = MkdirAll(dirs, pathFor(dstPathKey))
                     /\ UNCHANGED tempDirExists
                     /\ IF CanCreate(files, dirs', fullPath)
                        THEN /\ readers' = Detach(readers, files, {fullPath})
                             /\ files' = PutFile(files, fullPath, val)
                             /\ cache' = bustCacheWithLock(CacheState, dstKey).c
                             /\ cacheSize' = bustCacheWithLock(CacheState, dstKey).size
                             /\ lastErr' = "nil"
                             /\ probe' = ProbeImported(dstKey, val)
                             /\ erased' = erased \ {dstKey}
                             /\ last' = LastAfterWrite(dstKey, val)
                             /\ srcLeft' = SrcAfterImport(TRUE, move, TRUE)
                             /\ UNCHANGED <<index, mu>>
                        ELSE Failed("IO")
                ELSE writeStreamWithLock(dstPathKey, val, TRUE, move)

----------------------------------------------------------------------------
(* Read: diskv.go 272-341, 343-393 *)

\* readWithRLock: the reader over the open file
NewReader(key, path) ==
    [key |-> key, path |-> path, linked |-> TRUE, data |-> <<>>, buf |-> <<>>,
     pc |-> "read"]

\* Compression.Reader(r) on a siphon over a file shorter than the header: the
\* header read takes the siphon to io.EOF, whose cacheWithoutLock requests
\* d.mu while ReadStream, on the same goroutine, holds it
HeaderReadLocks(path) ==
    /\ compression /\ CacheSizeMax > 0
    /\ Len(files[path]) < Len(ZlibHeader)

ReadStream(key, direct) ==
    /\ Running /\ LockFree
    /\ key # <<>>
    /\ UNCHANGED <<cfgVars, fsVars, cacheVars, index, aborted, histVars, keysOut, keysChan, staged>>
    /\ IF key \in DOMAIN cache /\ ~direct
       THEN \* a reader over the cached bytes
            /\ lastErr' = IF ValidStream(cache[key]) THEN "nil" ELSE "IO"
            /\ probe' = ProbeReturned(key, Decode(cache[key]), lastErr')
            /\ UNCHANGED <<readers, tasks, mu>>
       ELSE /\ IF key \in DOMAIN cache
               THEN \* go func() { Lock; uncacheWithLock(key, len(val)) }()
                    /\ FreeTaskSlots # {}
                    /\ tasks' = [tasks EXCEPT ![Lowest(FreeTaskSlots)] =
                                    [key |-> key, sz |-> Len(cache[key]), live |-> TRUE]]
               ELSE UNCHANGED tasks
            /\ IF ~IsFile(files, completeFilename(transform(key)))
               THEN /\ lastErr' = "NotFound"
                    /\ probe' = IF direct THEN Idle ELSE ProbeReturned(key, <<>>, "NotFound")
                    /\ UNCHANGED <<readers, mu>>
               ELSE IF HeaderReadLocks(completeFilename(transform(key)))
               THEN \* the call never returns and never unlocks
                    /\ mu' = [mu EXCEPT !.st = "deadlock"]
                    /\ UNCHANGED <<readers, lastErr, probe>>
               ELSE IF ~ValidStream(files[completeFilename(transform(key))])
               THEN \* zlib.NewReaderDict fails on the header
                    /\ lastErr' = "IO"
                    /\ probe' = IF direct THEN Idle ELSE ProbeReturned(key, <<>>, "IO")
                    /\ UNCHANGED <<readers, mu>>
               ELSE /\ FreeReaderSlots # {}
                    /\ readers' = [readers EXCEPT ![Lowest(FreeReaderSlots)] =
                                      NewReader(key, completeFilename(transform(key)))]
                    /\ lastErr' = "nil"
                    /\ probe' = IF direct THEN Idle ELSE ProbeOpened(key)
                    /\ UNCHANGED mu

\* one Read(p) on the reader, with room for n bytes: siphon.Read up to the call
\* of cacheWithoutLock, or closingReader.Read.  It takes no lock.
ReaderRead(i, n) ==
    /\ Running
    /\ readers[i].pc = "read"
    /\ UNCHANGED <<cfgVars, fsVars, cacheVars, index, mu, tasks, aborted, lastErr, histVars,
                   keysOut, keysChan, staged>>
    /\ LET r == readers[i]
           content == ReaderContent(r)
           off == Len(r.buf)
       IN  IF off < Len(content)
           THEN /\ n \in 1..(Len(content) - off)
                /\ readers' = [readers EXCEPT ![i].buf = r.buf \o SubSeq(content, off + 1, off + n)]
                /\ UNCHANGED probe
           ELSE /\ n = 1
                /\ IF CacheSizeMax > 0
                   THEN /\ readers' = [readers EXCEPT ![i].pc = "eof"]
                        /\ UNCHANGED probe
                   ELSE /\ readers' = [readers EXCEPT ![i] = NoReader]
                        /\ probe' = ProbeDrained(Decode(r.buf))

\* siphon.Read at end-of-file: cacheWithoutLock(key, buf), then the file is closed
SiphonInstall(i) ==
    /\ Running /\ LockFree
    /\ readers[i].pc = "eof"
    /\ UNCHANGED <<cfgVars, fsVars, index, mu, tasks, lastErr, histVars, keysOut, keysChan, staged>>
    /\ \E o \in cacheWithLock(CacheState, readers[i].key, readers[i].buf) :
          IF o.res \in {"ok", "toolarge"}
          THEN /\ cache' = o.cs.c
               /\ cacheSize' = o.cs.size
               /\ readers' = [readers EXCEPT ![i] = NoReader]
               /\ probe' = ProbeDrained(Decode(readers[i].buf))
               /\ UNCHANGED aborted
          ELSE /\ aborted' = o.res
               /\ UNCHANGED <<cache, cacheSize, readers, probe>>

\* the goroutine ReadStream(direct=true) starts on a cached key
RunTask(j) ==
    /\ Running /\ LockFree
    /\ tasks[j].live
    /\ cacheSize - tasks[j].sz >= 0 - MaxUnderflow
    /\ cache' = uncacheWithLock(CacheState, tasks[j].key, tasks[j].sz).c
    /\ cacheSize' = uncacheWithLock(CacheState, tasks[j].key, tasks[j].sz).size
    /\ tasks' = [tasks EXCEPT ![j] = NoTask]
    /\ UNCHANGED <<cfgVars, fsVars, index, mu, readers, aborted, lastErr, probe, histVars,
                   keysOut, keysChan, staged>>

----------------------------------------------------------------------------
(* Erase, EraseAll: diskv.go 395-431, 548-571 *)

\* pruneDirsWithLock from its i-th round on: the directories left
RECURSIVE pruneDirsWithLock(_, _, _, _)
pruneDirsWithLock(F, D, pathList, i) ==
    IF i >= Len(pathList) THEN D
    ELSE LET dir == JoinClean(SubSeq(pathList, 1, Len(pathList) - i))
         IN  IF ~IsDir(D, dir) THEN D
             ELSE IF Glob(F, D, dir) # {} THEN D
             ELSE pruneDirsWithLock(F, D \ {dir}, pathList, i + 1)

Erase(key) ==
    /\ Running /\ LockFree
    /\ key # <<>>
    /\ UNCHANGED <<cfgVars, tempDirExists, mu, tasks, aborted, keysOut, keysChan, staged>>
    /\ cache' = bustCacheWithLock(CacheState, key).c
    /\ cacheSize' = bustCacheWithLock(CacheState, key).size
    /\ index' = IF hasIndex THEN IndexDelete(index, key) ELSE index
    /\ probe' = Idle
    /\ LET filename == completeFilename(transform(key))
       IN  IF IsFile(files, filename)
           THEN /\ readers' = Detach(readers, files, {filename})
                /\ files' = DelFile(files, filename)
                /\ dirs' = pruneDirsWithLock(files', dirs, transform(key).Path, 0)
                /\ erased' = ErasedAfterErase(key)
                /\ last' = LastAfterErase(key)
                /\ UNCHANGED srcLeft
                /\ lastErr' = "nil"
           ELSE /\ lastErr' = IF IsDir(dirs, filename) THEN "BadKey" ELSE "NotFound"
                /\ UNCHANGED <<files, dirs, readers, histVars>>

EraseAll ==
    /\ Running /\ LockFree
    /\ cache' = EmptyCache
    /\ cacheSize' = 0
    /\ tempDirExists' = FALSE
    /\ readers' = Detach(readers, files, DOMAIN files)
    /\ files' = EmptyFiles
    /\ dirs' = {}
    /\ lastErr' = "nil"
    /\ probe' = Idle
    /\ erased' = {}
    /\ last' = EmptyCache
    /\ UNCHANGED srcLeft
    /\ UNCHANGED <<cfgVars, index, mu, tasks, aborted, keysOut, keysChan, staged>>

\* New with Index and IndexLess over the directory an engine without index
\* filled: Index.Initialize(IndexLess, d.Keys(nil)) rebuilds the tree from the
\* keys the walker yields; the new engine starts with an empty cache
New ==
    /\ Running /\ LockFree
    /\ ~hasIndex
    /\ \A i \in ReaderSlots : readers[i].pc = "none"
    /\ \A j \in TaskSlots : ~tasks[j].live
    /\ hasIndex' = TRUE
    /\ index' = KeysOnDisk
    /\ cache' = EmptyCache
    /\ cacheSize' = 0
    /\ lastErr' = "nil"
    /\ probe' = Idle
    /\ UNCHANGED <<transformKind, useTempDir, CacheSizeMax, compression, watch, fsVars, mu,
                   readers,
                   tasks, aborted, histVars, keysOut, keysChan, staged>>

\* KeysPrefix with a receiver that takes every key until the channel is
\* closed, and nothing else running meanwhile
KeysPrefix(prefix) ==
    /\ Running /\ LockFree
    /\ \A i \in ReaderSlots : readers[i].pc = "none"
    /\ \A j \in TaskSlots : ~tasks[j].live
    /\ LET prepath == IF prefix = <<>> THEN <<>> ELSE pathFor(transform(prefix))
       IN keysChan' = [closed |-> TRUE, prefix |-> prefix,
                       out |-> Walk(files, dirs, prepath, prefix),
                       on |-> WrittenOnDisk]
    /\ UNCHANGED <<cfgVars, fsVars, cacheVars, index, mu, readers, tasks, aborted,
                   lastErr, probe, histVars, keysOut, staged>>

----------------------------------------------------------------------------

(* The engine under concurrent callers: one caller-supplied transform or the *)
(* default, with or without TempDir; two keys, two values, a cache of one    *)
(* byte or more; the round-trip client watching                             *)

Init ==
    /\ transformKind = "default"
    /\ useTempDir \in BOOLEAN
    /\ CacheSizeMax \in 1..MaxCacheSizeMax
    /\ hasIndex = TRUE
    /\ compression = FALSE
    /\ watch = "probe"
    /\ Fresh

Next ==
    \/ \E key \in CacheKeys, val \in Values : WriteStream(key, val)
    \/ WriteFinish
    \/ \E key \in CacheKeys, direct \in BOOLEAN : ReadStream(key, direct)
    \/ \E i \in ReaderSlots, n \in 1..2 : ReaderRead(i, n)
    \/ \E i \in ReaderSlots : SiphonInstall(i)
    \/ \E j \in TaskSlots : RunTask(j)
    \/ \E key \in CacheKeys : Erase(key)

Spec == Init /\ [][Next]_vars

----------------------------------------------------------------------------
(* The engine under callers that use every kind of key: legal ones, the empty *)
(* key, keys with the path separator or the path-list separator; either       *)
(* transform; the observer of erased keys watching                            *)

InitKeys ==
    /\ transformKind \in {"default", "simple"}
    /\ useTempDir \in BOOLEAN
    /\ CacheSizeMax \in 1..MaxCacheSizeMax
    /\ hasIndex = TRUE
    /\ compression = FALSE
    /\ watch = "erased"
    /\ Fresh

NextWE ==
    \/ \E key \in WriteKeys, val \in Values : WriteStream(key, val)
    \/ WriteFinish
    \/ \E key \in ReadKeys : ReadStream(key, FALSE)
    \/ \E i \in ReaderSlots, n \in 1..2 : ReaderRead(i, n)
    \/ \E i \in ReaderSlots : SiphonInstall(i)
    \/ \E key \in ReadKeys : Erase(key)

NextKeys ==
    \/ NextWE
    \/ \E src \in {"missing", "dir", "file"}, val \in Values, key \in ImportKeys,
          move \in BOOLEAN, exdev \in BOOLEAN : Import(src, val, key, move, exdev)
    \/ EraseAll

SpecWE == InitKeys /\ [][NextWE]_vars

SpecKeys == InitKeys /\ [][NextKeys]_vars

\* the same callers, reading back and erasing only the key "a"
NextReject ==
    \/ \E key \in WriteKeys, val \in Values : WriteStream(key, val)
    \/ WriteFinish
    \/ ReadStream(KA, FALSE)
    \/ \E i \in ReaderSlots, n \in 1..2 : ReaderRead(i, n)
    \/ \E i \in ReaderSlots : SiphonInstall(i)
    \/ \E key \in ReadKeys : Erase(key)
    \/ EraseAll

SpecReject == InitKeys /\ [][NextReject]_vars

----------------------------------------------------------------------------
(* The cache under writes and full reads: values of one and two bytes, a     *)
(* cache of no byte, one byte or more; the round-trip client watching       *)

BigValues == {<<1>>, <<1, 2>>}

InitCache ==
    /\ transformKind = "default"
    /\ useTempDir \in BOOLEAN
    /\ CacheSizeMax \in 0..MaxCacheSizeMax
    /\ hasIndex = TRUE
    /\ compression = FALSE
    /\ watch = "probe"
    /\ Fresh

NextCache ==
    \/ \E key \in CacheKeys, val \in BigValues : WriteStream(key, val)
    \/ WriteFinish
    \/ \E key \in CacheKeys : ReadStream(key, FALSE)
    \/ \E i \in ReaderSlots, n \in 1..2 : ReaderRead(i, n)
    \/ \E i \in ReaderSlots : SiphonInstall(i)

SpecCache == InitCache /\ [][NextCache]_vars

----------------------------------------------------------------------------
(* Import among writes and reads, direct or not, of one key; the client of   *)
(* Import watching                                                           *)

InitImport ==
    /\ transformKind = "default"
    /\ useTempDir \in BOOLEAN
    /\ CacheSizeMax \in 1..MaxCacheSizeMax
    /\ hasIndex = TRUE
    /\ compression = FALSE
    /\ watch = "import"
    /\ Fresh

NextImport ==
    \/ \E src \in {"missing", "dir", "file"}, val \in Values, move \in BOOLEAN,
          exdev \in BOOLEAN : Import(src, val, KA, move, exdev)
    \/ \E val \in Values : WriteStream(KA, val)
    \/ WriteFinish
    \/ \E direct \in BOOLEAN : ReadStream(KA, direct)
    \/ \E i \in ReaderSlots, n \in 1..2 : ReaderRead(i, n)
    \/ \E i \in ReaderSlots : SiphonInstall(i)
    \/ \E j \in TaskSlots : RunTask(j)

SpecImport == InitImport /\ [][NextImport]_vars

----------------------------------------------------------------------------
(* Writes and erasures under the transforms that make directories: one        *)
(* directory per key, or the folders of the key                              *)

PruneKeys == {KA, KASlashA, KASlashB, KSlashB}

InitPrune ==
    /\ transformKind \in {"simple", "hex"}
    /\ useTempDir \in BOOLEAN
    /\ CacheSizeMax \in 1..MaxCacheSizeMax
    /\ hasIndex = TRUE
    /\ compression = FALSE
    /\ watch = "none"
    /\ Fresh

NextPrune ==
    \/ \E key \in PruneKeys, val \in Values : WriteStream(key, val)
    \/ WriteFinish
    \/ \E key \in PruneKeys : Erase(key)

SpecPrune == InitPrune /\ [][NextPrune]_vars

----------------------------------------------------------------------------
(* Writes, erasures and full enumerations, one call after the other          *)

InitWalk ==
    /\ transformKind \in {"default", "simple"}
    /\ useTempDir \in BOOLEAN
    /\ CacheSizeMax \in 1..MaxCacheSizeMax
    /\ hasIndex = TRUE
    /\ compression = FALSE
    /\ watch = "last"
    /\ Fresh

NextWalk ==
    \/ \E key \in WriteKeys \cup CacheKeys, val \in Values : WriteStream(key, val)
    \/ WriteFinish
    \/ \E key \in CacheKeys : Erase(key)
    \/ KeysPrefix(<<>>)

SpecWalk == InitWalk /\ [][NextWalk]_vars

----------------------------------------------------------------------------
(* One thread: every call returns before the next one is made, readers are   *)
(* drained between calls, no ReadStream is direct                            *)

InitSingle ==
    /\ transformKind = "default"
    /\ useTempDir \in BOOLEAN
    /\ CacheSizeMax \in 0..MaxCacheSizeMax
    /\ hasIndex = TRUE
    /\ compression = FALSE
    /\ watch = "last"
    /\ Fresh

\* the previous call has returned: no write is between its steps, no
\* siphon.Read is between end-of-file and its cacheWithoutLock
Returned == LockFree /\ \A i \in ReaderSlots : readers[i].pc # "eof"

NextSingle ==
    \/ \E key \in CacheKeys, val \in Values : Returned /\ WriteStream(key, val)
    \/ WriteFinish
    \/ \E val \in Values, move \in BOOLEAN :
          Returned /\ Import("file", val, KA, move, FALSE)
    \/ \E key \in CacheKeys : Returned /\ Erase(key)
    \/ \E key \in CacheKeys : Returned /\ ReadStream(key, FALSE)
    \/ \E i \in ReaderSlots, n \in 1..2 : Returned /\ ReaderRead(i, n)
    \/ \E i \in ReaderSlots : SiphonInstall(i)

SpecSingle == InitSingle /\ [][NextSingle]_vars

----------------------------------------------------------------------------
(* Writes whose pipeline may fail at any step, with reads that fill the      *)
(* cache                                                                     *)

InitFail ==
    /\ transformKind = "default"
    /\ useTempDir \in BOOLEAN
    /\ CacheSizeMax \in 1..MaxCacheSizeMax
    /\ hasIndex = TRUE
    /\ compression = FALSE
    /\ watch = "last"
    /\ Fresh

NextFail ==
    \/ \E key \in CacheKeys, val \in Values : WriteStream(key, val)
    \/ WriteFinish
    \/ \E key \in CacheKeys, val \in Values, step \in TempSteps :
          WriteStreamFails(key, val, step)
    \/ \E step \in InPlaceSteps : WriteFails(step)
    \/ \E key \in CacheKeys : Returned /\ ReadStream(key, FALSE)
    \/ \E i \in ReaderSlots, n \in 1..2 : Returned /\ ReaderRead(i, n)
    \/ \E i \in ReaderSlots : SiphonInstall(i)

SpecFail == InitFail /\ [][NextFail]_vars

----------------------------------------------------------------------------
(* A directory filled by an engine without index, then opened by New with an *)
(* index; the record of the latest mutations kept                            *)

InitReload ==
    /\ transformKind \in {"default", "simple"}
    /\ useTempDir \in BOOLEAN
    /\ CacheSizeMax \in 1..MaxCacheSizeMax
    /\ hasIndex = FALSE
    /\ compression = FALSE
    /\ watch = "last"
    /\ Fresh

NextReload ==
    \/ \E key \in WriteKeys, val \in Values : WriteStream(key, val)
    \/ WriteFinish
    \/ \E key \in ReadKeys : Erase(key)
    \/ New

SpecReload == InitReload /\ [][NextReload]_vars

----------------------------------------------------------------------------
(* The index alone: Insert, Delete and Keys on the tree New initialised *)

IndexKeySet == {<<"a">>, <<"b">>, <<"c">>}
Froms == IndexKeySet \cup {<<>>, <<"b", "b">>, <<"-">>}

IndexInsertCall(key) ==
    /\ index' = IndexInsert(index, key)
    /\ UNCHANGED <<cfgVars, fsVars, cacheVars, mu, readers, tasks, aborted, lastErr,
                   probe, histVars, keysOut, keysChan, staged>>

IndexDeleteCall(key) ==
    /\ index' = IndexDelete(index, key)
    /\ UNCHANGED <<cfgVars, fsVars, cacheVars, mu, readers, tasks, aborted, lastErr,
                   probe, histVars, keysOut, keysChan, staged>>

IndexKeysCall(from, n) ==
    /\ keysOut' = [from |-> from, n |-> n, out |-> IndexKeys(index, from, n),
                   called |-> TRUE, tree |-> index]
    /\ UNCHANGED <<cfgVars, fsVars, cacheVars, index, mu, readers, tasks, aborted,
                   lastErr, probe, histVars, keysChan, staged>>

InitIndex ==
    /\ transformKind = "default"
    /\ useTempDir = FALSE
    /\ CacheSizeMax = MaxCacheSizeMax
    /\ hasIndex = TRUE
    /\ compression = FALSE
    /\ watch = "none"
    /\ Fresh

NextIndex ==
    \/ \E key \in IndexKeySet : IndexInsertCall(key)
    \/ \E key \in IndexKeySet : IndexDeleteCall(key)
    \/ \E from \in Froms, n \in 0..MaxKeysN : IndexKeysCall(from, n)

SpecIndex == InitIndex /\ [][NextIndex]_vars

\* the index under keys that the byte order separates from their length
\* ("-" < "a" < "ab"), listed from the start
OrderKeys == {<<"-">>, <<"a">>, <<"a", "b">>}

NextOrder ==
    \/ \E key \in OrderKeys : IndexInsertCall(key)
    \/ \E key \in OrderKeys : IndexDeleteCall(key)
    \/ \E n \in 0..MaxKeysN : IndexKeysCall(<<>>, n)

SpecOrder == InitIndex /\ [][NextOrder]_vars

----------------------------------------------------------------------------
(* Claims about the cache *)

RECURSIVE SumLen(_, _)
SumLen(c, K) ==
    IF K = {} THEN 0
    ELSE LET k == CHOOSE x \in K : TRUE IN Len(c[k]) + SumLen(c, K \ {k})

CacheBytes == SumLen(cache, DOMAIN cache)

\* C1: Write(k, v) in a state where every reader opened earlier has been
\* drained, then Read(k), then Read(k) again: both reads return, without
\* error, exactly v
C1_WriteReadRoundTrip ==
    /\ probe.st \in {"read1", "read2"} => probe.err = "nil" /\ probe.got = probe.val
    /\ probe.st \in {"reading1", "reading2"} => aborted = "no"

\* C2: whenever the lock is free, the cached values and the running total
\* cacheSize both fit CacheSizeMax
C2_CacheBudget ==
    LockFree => CacheBytes <= CacheSizeMax /\ cacheSize <= CacheSizeMax

\* C3: whenever the lock is free, cacheSize is non-negative and is the sum of
\* the lengths of the cached values
C3_CacheAccounting ==
    LockFree => cacheSize >= 0 /\ cacheSize = CacheBytes

----------------------------------------------------------------------------
(* Claims about keys, the index and the disk *)

\* Read(key), run alone from here, fails with NotFound
ReadNotFound(key) ==
    key \notin DOMAIN cache /\ ~IsFile(files, completeFilename(transform(key)))

\* C4: after a successful Erase(k) and until k is written or imported again:
\* Has(k) is false, Read(k) fails with NotFound, k is neither cached nor indexed
C4_EraseRemoves ==
    LockFree =>
        \A k \in erased :
            ~Has(k) /\ ReadNotFound(k) /\ k \notin DOMAIN cache /\ k \notin index

WriteOrEraseReturnsNil ==
    /\ \/ \E key \in WriteKeys, val \in Values : WriteStream(key, val)
       \/ WriteFinish
       \/ \E key \in ReadKeys : Erase(key)
    /\ lastErr' = "nil" /\ mu'.st = "free"

\* C5: when a Write, WriteStream or Erase returns without error, the index
\* holds exactly the keys that have a file on disk
C5_IndexEqualsDisk == [][WriteOrEraseReturnsNil => index' = KeysOnDisk']_vars

ImportReturnsNil(key) ==
    /\ \/ \E src \in {"missing", "dir", "file"}, val \in Values, move \in BOOLEAN,
             exdev \in BOOLEAN : Import(src, val, key, move, exdev)
       \/ WriteFinish /\ mu.import /\ mu.key = key
    /\ lastErr' = "nil" /\ mu'.st = "free"

\* C6: when Import(src, k, move) returns without error, k is in the index
C6_ImportUpdatesIndex ==
    [][\A key \in ImportKeys : ImportReturnsNil(key) => key \in index']_vars

\* C7: after EraseAll no file is on disk, the cache is empty, cacheSize is 0,
\* and Index.Keys("", n) is empty
C7_EraseAllEmpties ==
    [][EraseAll =>
          /\ files' = EmptyFiles
          /\ cache' = EmptyCache /\ cacheSize' = 0
          /\ \A n \in 0..MaxKeysN : IndexKeys(index', <<>>, n) = <<>>]_vars

EngineState == <<files, dirs, tempDirExists, index, cache, cacheSize>>

\* C8: with the default transform, Write of a key that contains the path
\* separator returns BadKey, and disk, index and cache stay as they were
C8_BadKeyRejection ==
    [][\A key \in WriteKeys, val \in Values :
          (/\ transformKind = "default"
           /\ ContainsRune(key, PathSeparator)
           /\ WriteStream(key, val)
           /\ mu'.st = "free")
          => lastErr' = "BadKey" /\ UNCHANGED EngineState]_vars

\* what the text of the claim calls illegal
SegmentHasSeparator(key) ==
    \E i \in 1..Len(transform(key).Path) :
        ContainsRune(transform(key).Path[i], PathSeparator)
FileNameHasListSeparator(key) == ContainsRune(transform(key).FileName, PathListSeparator)

\* C9: WriteStream of the empty key returns Empty, of a key with the path
\* separator in a path segment or the path-list separator in the file name
\* BadKey; the call does not take the lock and leaves disk, temp directory,
\* index and cache as they were
C9_RejectedBeforeSideEffects ==
    [][\A key \in WriteKeys, val \in Values :
          (/\ key = KEmpty \/ SegmentHasSeparator(key) \/ FileNameHasListSeparator(key)
           /\ WriteStream(key, val))
          => /\ lastErr' = IF key = KEmpty THEN "Empty" ELSE "BadKey"
             /\ UNCHANGED <<EngineState, mu>>]_vars

\* a key with the separator in its path segment was rejected over a disk, an
\* index and a cache that hold something
C9_Witness ==
    /\ transformKind = "simple" /\ lastErr = "BadKey"
    /\ DOMAIN files # {} /\ index # {} /\ DOMAIN cache # {}

----------------------------------------------------------------------------
(* Claims about Index.Keys *)

FirstN(s, n) == SubSeq(s, 1, IF n < Len(s) THEN n ELSE Len(s))

\* C10: Keys("", n) is the n smallest keys, ascending; Keys(from, n) with a
\* non-empty from is the first keys strictly greater than from, ascending,
\* whether from is in the index or not.  Stated for n >= 1.
C10_KeysFrom ==
    (keysOut.called /\ keysOut.n >= 1) =>
        keysOut.out =
            FirstN(SortedSeq({e \in keysOut.tree :
                                 keysOut.from = <<>> \/ strLess(keysOut.from, e)}),
                   keysOut.n)

----------------------------------------------------------------------------
(* Claims about New, the cache on the read path, Import, pruning, Keys *)

\* C12: New with an index over a directory that holds the files of the keys S,
\* written by an engine without index, returns with an index that holds
\* exactly S
C12_IndexReload == [][New => index' = WrittenOnDisk]_vars

\* Write or WriteStream of key returns nil in this step
WriteReturnsNil(key) ==
    /\ \/ \E val \in BigValues : WriteStream(key, val)
       \/ WriteFinish /\ ~mu.import /\ mu.key = key
    /\ lastErr' = "nil" /\ mu'.st = "free"

\* C13: when a successful Write(k, v) or WriteStream returns, Has(k) is true
\* and k is not in the cache, whether k was cached before or not
C13_WriteBusts ==
    [][\A key \in CacheKeys :
          WriteReturnsNil(key) => Has(key)' /\ key \notin DOMAIN cache']_vars

\* the client's Write has just returned; the other key is still cached
C13_Witness ==
    /\ probe.st = "written" /\ lastErr = "nil" /\ LockFree
    /\ Has(probe.key) /\ probe.key \notin DOMAIN cache
    /\ DOMAIN cache # {}

\* C14: with CacheSizeMax > 0, when the client's first Read(k), which missed
\* the cache, has read a value of at most CacheSizeMax bytes to end-of-file
\* and completes, k is in the cache with exactly the bytes read, and the
\* process is still running
C14_LazyCaching ==
    [][\A i \in ReaderSlots :
          (/\ SiphonInstall(i)
           /\ probe.st = "reading1" /\ readers[i].key = probe.key
           /\ CacheSizeMax > 0
           /\ Len(readers[i].buf) <= CacheSizeMax)
          => /\ aborted' = "no"
             /\ readers[i].key \in DOMAIN cache'
             /\ cache'[readers[i].key] = readers[i].buf]_vars

\* reader i completes in this step: the siphon's install at end-of-file, or
\* the end-of-file of a closingReader
ReaderCompletes(i) ==
    \/ SiphonInstall(i)
    \/ \E n \in 1..2 : ReaderRead(i, n) /\ readers'[i].pc = "none"

\* C15: a full read of a value longer than CacheSizeMax (of any value when
\* CacheSizeMax is 0) completes, returns the value, leaves its key out of
\* the cache and every other entry in place
C15_UncacheableUntouched ==
    [][\A i \in ReaderSlots :
          (/\ ReaderCompletes(i)
           /\ CacheSizeMax = 0 \/ Len(readers[i].buf) > CacheSizeMax)
          => /\ aborted' = "no"
             /\ readers[i].key \notin DOMAIN cache'
             /\ \A k \in DOMAIN cache \ {readers[i].key} :
                   k \in DOMAIN cache' /\ cache'[k] = cache[k]
             /\ (probe.st = "reading1" /\ probe.key = readers[i].key)
                   => probe'.st = "read1" /\ probe'.got = probe.val]_vars

\* CacheSizeMax = 1: the client wrote two bytes under "b" and read them back;
\* the one-byte "a" is still cached, "b" is not
C15_Witness ==
    /\ CacheSizeMax = 1
    /\ probe.st = "read1" /\ probe.key = KB /\ probe.got = <<1, 2>>
    /\ DOMAIN cache = {KA} /\ cache[KA] = <<1>>

PathDirs(key) ==
    {JoinClean(SubSeq(transform(key).Path, 1, i)) : i \in 1..Len(transform(key).Path)}
        \ {<<>>}

\* C17: after a successful Erase(k) no directory on k's path is left empty,
\* the ancestors of every remaining file are still there, and BasePath is
\* still there
C17_Pruning ==
    [][\A key \in PruneKeys :
          (Erase(key) /\ lastErr' = "nil")
          => /\ \A d \in PathDirs(key) : IsDir(dirs', d) => Glob(files', dirs', d) # {}
             /\ \A p \in DOMAIN files' : Prefixes(Parent(p)) \subseteq dirs'
             /\ IsDir(dirs', <<>>)]_vars

\* C18: a drained Keys(nil) delivers every key written and still on disk,
\* each once, and no other key, and the channel is closed after them
C18_KeyEnumeration ==
    (keysChan.closed /\ keysChan.prefix = <<>>) =>
        /\ {keysChan.out[i] : i \in 1..Len(keysChan.out)} = keysChan.on
        /\ \A i, j \in 1..Len(keysChan.out) :
              i # j => keysChan.out[i] # keysChan.out[j]

\* what Read(key) returns when it starts in this state and nothing else runs
\* until it returns: the cached bytes, or all the bytes of the file
ReadReturns(key) ==
    IF key \in DOMAIN cache THEN cache[key]
    ELSE files[completeFilename(transform(key))]

\* C19: in one thread a Read(k) returns the value of the latest successful
\* Write or Import of k, and NotFound if k was erased since or never written
C19_SingleThreadOrdering ==
    [][\A key \in CacheKeys :
          (Returned /\ ReadStream(key, FALSE))
          => IF key \in DOMAIN last
             THEN lastErr' = "nil" /\ ReadReturns(key) = last[key]
             ELSE lastErr' = "NotFound"]_vars

\* WriteStream(key, v) returns in this step because a step of its pipeline
\* failed
WriteStreamFailed(key) ==
    \/ \E val \in Values, step \in TempSteps : WriteStreamFails(key, val, step)
    \/ \E step \in InPlaceSteps : WriteFails(step) /\ mu.key = key /\ ~mu.import

\* index and cache say of key what the latest successful mutation left
IndexCacheAgree(key) ==
    /\ key \in index <=> key \in DOMAIN last
    /\ key \in DOMAIN cache => key \in DOMAIN last /\ cache[key] = last[key]

\* index and cache say of key what the disk holds
AgreeWithDisk(key) ==
    /\ key \in index <=> IsFile(files, completeFilename(transform(key)))
    /\ key \in DOMAIN cache =>
          /\ IsFile(files, completeFilename(transform(key)))
          /\ cache[key] = files[completeFilename(transform(key))]

\* C20: a WriteStream whose pipeline fails returns an error, leaves no
\* temporary file, leaves the value stored before on disk, and leaves index
\* and cache in agreement with the disk
C20_FailedWrites ==
    [][\A key \in CacheKeys :
          WriteStreamFailed(key)
          => /\ lastErr' # "nil"
             /\ staged' => staged
             /\ key \in DOMAIN last =>
                   /\ IsFile(files', completeFilename(transform(key)))
                   /\ files'[completeFilename(transform(key))] = last[key]
             /\ IndexCacheAgree(key) => AgreeWithDisk(key)']_vars

----------------------------------------------------------------------------
(* Direct reads under fair scheduling: sync.Mutex hands the lock to a        *)
(* goroutine that keeps waiting for it, so the deferred uncache runs if the  *)
(* lock is free again and again; a write that holds the lock goes on to its  *)
(* end; a reader may stay undrained for ever                                 *)

InitDirect ==
    /\ transformKind = "default"
    /\ useTempDir \in BOOLEAN
    /\ CacheSizeMax = 1
    /\ hasIndex = TRUE
    /\ compression = FALSE
    /\ watch = "none"
    /\ Fresh

NextDirect ==
    \/ \E val \in Values : WriteStream(KA, val)
    \/ WriteFinish
    \/ \E direct \in BOOLEAN : ReadStream(KA, direct)
    \/ \E i \in ReaderSlots, n \in 1..2 : ReaderRead(i, n)
    \/ \E i \in ReaderSlots : SiphonInstall(i)
    \/ \E j \in TaskSlots : RunTask(j)
    \/ Erase(KA)

SpecDirect ==
    /\ InitDirect
    /\ [][NextDirect]_vars
    /\ WF_vars(WriteFinish)
    /\ \A j \in TaskSlots : SF_vars(RunTask(j))

----------------------------------------------------------------------------
(* Two readers of one key open at a time, next to writes, erasures and       *)
(* direct reads                                                              *)

SiblingReaders == MaxReaders + 1

InitSibling ==
    /\ transformKind = "default"
    /\ useTempDir \in BOOLEAN
    /\ CacheSizeMax \in 0..MaxCacheSizeMax
    /\ hasIndex = TRUE
    /\ compression = FALSE
    /\ watch = "sibling"
    /\ FreshWith(SiblingReaders)

NextSibling ==
    \/ \E val \in Values : WriteStream(KA, val)
    \/ WriteFinish
    \/ \E direct \in BOOLEAN : ReadStream(KA, direct)
    \/ \E i \in ReaderSlots, n \in 1..2 : ReaderRead(i, n)
    \/ \E i \in ReaderSlots : SiphonInstall(i)
    \/ \E j \in TaskSlots : RunTask(j)
    \/ Erase(KA)

SpecSibling == InitSibling /\ [][NextSibling]_vars

----------------------------------------------------------------------------
(* Readers that are drained after the key was written or erased, and the     *)
(* Write and Read that follow                                                *)

InitHeal ==
    /\ transformKind = "default"
    /\ useTempDir \in BOOLEAN
    /\ CacheSizeMax \in 1..MaxCacheSizeMax
    /\ hasIndex = TRUE
    /\ compression = FALSE
    /\ watch = "heal"
    /\ Fresh

NextHeal ==
    \/ \E val \in Values : WriteStream(KA, val)
    \/ WriteFinish
    \/ \E direct \in BOOLEAN : ReadStream(KA, direct)
    \/ \E i \in ReaderSlots, n \in 1..2 : ReaderRead(i, n)
    \/ \E i \in ReaderSlots : SiphonInstall(i)
    \/ \E j \in TaskSlots : RunTask(j)
    \/ Erase(KA)

SpecHeal == InitHeal /\ [][NextHeal]_vars

----------------------------------------------------------------------------
(* Claims about the panics, direct reads, concurrent readers, the lock,     *)
(* KeysPrefix, and the cache against the disk                               *)

DirectReadOfCached(key) == ReadStream(key, TRUE) /\ key \in DOMAIN cache

\* C22: ReadStream(k, true) on a cached key returns a reader over the file of k
\* at its first byte, with the uncache started and not yet run; and every
\* uncache that was started runs in the end
C22_DirectRead ==
    /\ [][\A key \in CacheKeys :
            DirectReadOfCached(key)
            => /\ lastErr' = "nil"
               /\ \E i \in ReaderSlots :
                     /\ readers[i].pc = "none" /\ readers'[i].pc = "read"
                     /\ readers'[i].linked
                     /\ readers'[i].path = completeFilename(transform(key))
                     /\ readers'[i].buf = <<>>
               /\ key \in DOMAIN cache'
               /\ \E j \in TaskSlots : ~tasks[j].live /\ tasks'[j].live]_vars
    /\ \A j \in TaskSlots : tasks[j].live ~> ~tasks[j].live

\* C23: two Reads of k that both miss the cache and are both drained, with no
\* Write, Import or Erase of k since the one before them: both installs run,
\* the second reader got the bytes the first one got, and after the second
\* install the cache holds k with those bytes and cacheSize is the sum of the
\* cached lengths
C23_SiblingSiphon ==
    /\ [][\A i \in ReaderSlots :
            (SiphonInstall(i) /\ probe.st \in {"siblings", "drained1"})
            => /\ aborted' = "no"
               /\ probe.st = "drained1" => readers[i].buf = probe.got]_vars
    /\ []((probe.st = "drained2" /\ CacheSizeMax > 0 /\ Len(probe.got) <= CacheSizeMax)
            => /\ probe.key \in DOMAIN cache
               /\ cache[probe.key] = probe.got
               /\ cacheSize = CacheBytes)

\* C24: when Write(k, v') has returned over a cache that held stale bytes for
\* k, with no reader open, k has no cache entry; the Read(k) that follows
\* returns v' and leaves v' in the cache if v' fits
C24_StaleCacheHealed ==
    /\ probe.st = "written" => probe.key \notin DOMAIN cache
    /\ probe.st = "reading1" => aborted = "no"
    /\ probe.st = "read1" =>
          /\ probe.err = "nil" /\ probe.got = probe.val
          /\ Len(probe.val) <= CacheSizeMax =>
                probe.key \in DOMAIN cache /\ cache[probe.key] = probe.val

----------------------------------------------------------------------------
(* The lock: every locked operation on one key, with and without compression *)

\* the contents of the files Import is given: files shorter than a zlib
\* header, a whole zlib stream, and two bytes that are no zlib header
ImportedContents == Values \cup {ZlibHeader, <<1, 2>>}

InitLock ==
    /\ transformKind = "default"
    /\ useTempDir \in BOOLEAN
    /\ CacheSizeMax \in 0..MaxCacheSizeMax
    /\ hasIndex = TRUE
    /\ compression \in BOOLEAN
    /\ watch = "none"
    /\ Fresh

NextLock ==
    \/ \E val \in Values : WriteStream(KA, val)
    \/ WriteFinish
    \/ \E step \in InPlaceSteps : WriteFails(step)
    \/ \E val \in ImportedContents, move \in BOOLEAN, exdev \in BOOLEAN :
          Import("file", val, KA, move, exdev)
    \/ \E direct \in BOOLEAN : ReadStream(KA, direct)
    \/ \E i \in ReaderSlots, n \in 1..2 : ReaderRead(i, n)
    \/ \E i \in ReaderSlots : SiphonInstall(i)
    \/ \E j \in TaskSlots : RunTask(j)
    \/ Erase(KA)
    \/ EraseAll

SpecLock == InitLock /\ [][NextLock]_vars

\* what Diskv.mu guards: the cache map, cacheSize, the index, and the files
\* and directories under BasePath
Guarded == <<cache, cacheSize, index, files, dirs>>

\* C25: the operations that lock d.mu exclude each other: what the lock guards
\* changes only in a step that takes the free lock, or in the step by which
\* the in-place write that holds the lock ends and releases it; and no
\* goroutine requests the lock while it holds it.
C25_LockDiscipline ==
    /\ [][Guarded' # Guarded => LockFree \/ (mu.st = "write" /\ mu'.st = "free")]_vars
    /\ [](mu.st # "deadlock")

----------------------------------------------------------------------------
(* Writes, erasures and enumerations by prefix, one call after the other,    *)
(* under each transform                                                      *)

PrefixKeys == {KA, KAB, KB, KASlashB}
KeyPrefixes == {KA, KAB, KB, KASlash}

\* the inverse transform gives the key back from the place of its file
RoundTrips(key) == KeyOfFile(completeFilename(transform(key))) = key

InitPrefix ==
    /\ transformKind \in {"default", "simple", "hex"}
    /\ useTempDir \in BOOLEAN
    /\ CacheSizeMax \in 1..MaxCacheSizeMax
    /\ hasIndex = TRUE
    /\ compression = FALSE
    /\ watch = "last"
    /\ Fresh

NextPrefix ==
    \/ \E key \in PrefixKeys, val \in Values : RoundTrips(key) /\ WriteStream(key, val)
    \/ WriteFinish
    \/ \E key \in PrefixKeys : Erase(key)
    \/ \E prefix \in KeyPrefixes : KeysPrefix(prefix)

SpecPrefix == InitPrefix /\ [][NextPrefix]_vars

\* C26: a drained KeysPrefix(p, nil) with p not empty delivers every key
\* written and still on disk that begins with p, each once, and no other key,
\* whatever directory the walk starts from.
C26_PrefixEnumeration ==
    (keysChan.closed /\ keysChan.prefix # <<>>) =>
        /\ {keysChan.out[i] : i \in 1..Len(keysChan.out)}
              = {k \in keysChan.on : HasPrefix(k, keysChan.prefix)}
        /\ \A i, j \in 1..Len(keysChan.out) :
              i # j => keysChan.out[i] # keysChan.out[j]

----------------------------------------------------------------------------
(* Readers of a key that outlive its file: writes, reads through the cache,  *)
(* Erase and EraseAll                                                        *)

InitBacked ==
    /\ transformKind = "default"
    /\ useTempDir \in BOOLEAN
    /\ CacheSizeMax \in 1..MaxCacheSizeMax
    /\ hasIndex = TRUE
    /\ compression = FALSE
    /\ watch = "none"
    /\ Fresh

NextBacked ==
    \/ \E key \in CacheKeys, val \in Values : WriteStream(key, val)
    \/ WriteFinish
    \/ \E key \in CacheKeys : ReadStream(key, FALSE)
    \/ \E i \in ReaderSlots, n \in 1..2 : ReaderRead(i, n)
    \/ \E i \in ReaderSlots : SiphonInstall(i)
    \/ \E key \in CacheKeys : Erase(key)
    \/ EraseAll

SpecBacked == InitBacked /\ [][NextBacked]_vars

\* C27: whenever the lock is free, every key the cache holds has a regular
\* file on disk, and Has(k) is true only of a key with a regular file on disk.
C27_CacheBackedByDisk ==
    LockFree =>
        /\ \A k \in DOMAIN cache : IsFile(files, completeFilename(transform(k)))
        /\ \A k \in CacheKeys : Has(k) => IsFile(files, completeFilename(transform(k)))

====
